---- MODULE Spec2Model ----
(***************************************************************************)
(* A model of salt/modules/win_snmp.py: the SNMP agent settings, the       *)
(* authentication-trap toggle and the community table, each read from and  *)
(* written to the Windows registry through __utils__["reg.*"].             *)
(*                                                                         *)
(* Python values are encoded uniformly so that Python's == between values  *)
(* of different types is plain equality here:                              *)
(*   a scalar is a record [kind, s, n] (PyNone, PyStr(s), PyInt(n));       *)
(*   an optional list is None (<<>>) or Some(list) (<<list>>);             *)
(*   a dict is a function from its keys.                                   *)
(***************************************************************************)
EXTENDS Integers, Sequences, FiniteSets, TLC

VARIABLES
    sysContact,                 \* vdata of RFC1156Agent\sysContact
    sysLocation,                \* vdata of RFC1156Agent\sysLocation
    sysServices,                \* vdata of RFC1156Agent\sysServices
    EnableAuthenticationTraps,  \* vdata of Parameters\EnableAuthenticationTraps
    gpoKeyExists,               \* reg.key_exists(_COMMUNITIES_GPO_KEY)
    gpoValues,                  \* reg.list_values(_COMMUNITIES_GPO_KEY)
    localValues,                \* the values under _COMMUNITIES_KEY: vname -> vdata
    localError,                 \* list_values(_COMMUNITIES_KEY) holds a non-dict item
    call,                       \* the last call: its function and arguments
    outcome,                    \* how the last call ended: a return value or an exception
    writes,                     \* the reg.set_value / reg.delete_value calls it issued
    result                      \* what the last call of a get_ function returned

vars == <<sysContact, sysLocation, sysServices, EnableAuthenticationTraps,
          gpoKeyExists, gpoValues, localValues, localError,
          call, outcome, writes, result>>

agentStore == <<sysContact, sysLocation, sysServices>>
commStore == <<gpoKeyExists, gpoValues, localValues, localError>>

----------------------------------------------------------------------------
\* Python values

PyNone == [kind |-> "none", s |-> "", n |-> 0]
PyStr(str) == [kind |-> "str", s |-> str, n |-> 0]
PyInt(i) == [kind |-> "int", s |-> "", n |-> i]

None == <<>>
Some(x) == <<x>>

EmptyDict == [k \in {} |-> ""]
DictSet(d, key, value) ==
    [k \in (DOMAIN d) \cup {key} |-> IF k = key THEN value ELSE d[k]]
DictDel(d, key) == [k \in (DOMAIN d) \ {key} |-> d[k]]

Range(seq) == {seq[i] : i \in DOMAIN seq}

\* The strings the model sorts, in the order of Python's str comparison.
StrOrder ==
    <<"Applications", "Datalink and subnetwork", "End-to-end", "Internet",
      "None", "Physical", "a", "b", "bogus">>
StrRank == [str \in Range(StrOrder) |-> CHOOSE i \in DOMAIN StrOrder : StrOrder[i] = str]
StrIndex(str) == StrRank[str]
StrLt(a, b) == StrIndex(a) < StrIndex(b)

\* Python's comparison of the tuples (int, str).
KeyLt(k1, k2) == k1[1] < k2[1] \/ (k1[1] = k2[1] /\ StrLt(k1[2], k2[2]))

\* sorted(items, key=...), on items with pairwise different keys.
RECURSIVE sorted(_, _)
sorted(items, key) ==
    IF items = {} THEN <<>>
    ELSE LET first == CHOOSE x \in items :
                          \A y \in items \ {x} : KeyLt(key[x], key[y])
         IN  <<first>> \o sorted(items \ {first}, key)

NameKey(names) == [x \in names |-> <<0, x>>]
SortedNames(names) == sorted(names, NameKey(names))

----------------------------------------------------------------------------
\* The enumerations, in declared order

PERMISSION_TYPES ==
    << [name |-> "None", value |-> 1],
       [name |-> "Notify", value |-> 2],
       [name |-> "Read Only", value |-> 4],
       [name |-> "Read Write", value |-> 8],
       [name |-> "Read Create", value |-> 16] >>

SERVICE_TYPES ==
    << [name |-> "None", value |-> 0],
       [name |-> "Physical", value |-> 1],
       [name |-> "Datalink and subnetwork", value |-> 2],
       [name |-> "Internet", value |-> 4],
       [name |-> "End-to-end", value |-> 8],
       [name |-> "Applications", value |-> 64] >>

get_agent_service_types == [i \in DOMAIN SERVICE_TYPES |-> SERVICE_TYPES[i].name]
get_permission_types == [i \in DOMAIN PERMISSION_TYPES |-> PERMISSION_TYPES[i].name]

\* _SERVICE_TYPES[name] and _PERMISSION_TYPES[name], for a name that is a key
ServiceValue(name) ==
    (CHOOSE t \in Range(SERVICE_TYPES) : t.name = name).value
PermissionValue(name) ==
    (CHOOSE t \in Range(PERMISSION_TYPES) : t.name = name).value

----------------------------------------------------------------------------
\* get_agent_settings

\* sorted(_SERVICE_TYPES.items(), key=lambda x: (-x[1], x[0]))
sorted_types ==
    sorted(Range(SERVICE_TYPES),
           [x \in Range(SERVICE_TYPES) |-> <<0 - x.value, x.name>>])

\* The subtraction loop with a service accepted only while a remainder is left.
RECURSIVE decompose_strict(_, _, _)
decompose_strict(i, current_bitmask, services) ==
    IF i > Len(sorted_types) THEN services
    ELSE IF current_bitmask # PyNone /\ current_bitmask.n > 0
         THEN LET remaining_bitmask == current_bitmask.n - sorted_types[i].value
              IN  IF remaining_bitmask > 0
                  THEN decompose_strict(i + 1, PyInt(remaining_bitmask),
                                        Append(services, sorted_types[i].name))
                  ELSE decompose_strict(i + 1, current_bitmask, services)
         ELSE services

\* The subtraction loop over sorted_types, from its i-th item on.
RECURSIVE decompose(_, _, _)
decompose(i, current_bitmask, services) ==
    IF i > Len(sorted_types) THEN services
    ELSE IF current_bitmask # PyNone /\ current_bitmask.n > 0
         THEN LET remaining_bitmask == current_bitmask.n - sorted_types[i].value
              IN  IF remaining_bitmask >= 0
                  THEN decompose(i + 1, PyInt(remaining_bitmask),
                                 Append(services, sorted_types[i].name))
                  ELSE decompose(i + 1, current_bitmask, services)
         ELSE services

agent_services(current_bitmask) ==
    LET found == IF current_bitmask = PyInt(0)
                 THEN <<sorted_types[Len(sorted_types)].name>>
                 ELSE decompose(1, current_bitmask, <<>>)
    IN  SortedNames(Range(found))

get_agent_settings(contact, location, bitmask) ==
    [contact |-> contact, location |-> location,
     services |-> agent_services(bitmask)]

----------------------------------------------------------------------------
\* The call record, and the registry calls a function issues

NoCall ==
    [fn |-> "", contact |-> PyNone, location |-> PyNone, services |-> None,
     status |-> FALSE, communities |-> EmptyDict, dropped |-> {}]

\* The value a get_ function returned, in the field of its type; the fields
\* of the other types, and all of them after another call, hold these.
NoResult ==
    [settings |-> [contact |-> PyNone, location |-> PyNone, services |-> <<>>],
     enabled |-> FALSE,
     communities |-> EmptyDict]

AGENT_KEY == "SYSTEM\\CurrentControlSet\\Services\\SNMP\\Parameters\\RFC1156Agent"
SNMP_KEY == "SYSTEM\\CurrentControlSet\\Services\\SNMP\\Parameters"
COMMUNITIES_KEY == "SYSTEM\\CurrentControlSet\\Services\\SNMP\\Parameters\\ValidCommunities"

\* __utils__["reg.set_value"](_HKEY, key, vname, vdata, vtype)
set_value(key, vname, vdata, vtype) ==
    [fn |-> "set_value", key |-> key, vname |-> vname, vdata |-> vdata,
     vtype |-> vtype]

\* __utils__["reg.delete_value"](_HKEY, key, vname)
delete_value(key, vname) ==
    [fn |-> "delete_value", key |-> key, vname |-> vname, vdata |-> PyNone,
     vtype |-> ""]

\* The vdata of value vname after the issued calls, of which those at the
\* positions in dropped did not take effect in the registry.
StoredAfter(issued, dropped, vname, old) ==
    IF \E i \in DOMAIN issued : issued[i].vname = vname /\ i \notin dropped
    THEN (CHOOSE w \in {issued[i] : i \in (DOMAIN issued) \ dropped} :
              w.vname = vname).vdata
    ELSE old

----------------------------------------------------------------------------
\* set_agent_settings

\* every service of the list is a key of _SERVICE_TYPES
services_valid(services) ==
    \A i \in DOMAIN services : services[i] \in Range(get_agent_service_types)

\* settings == current_settings, on the dicts of contact, location, services
settings_equal(contact, location, services, current_settings) ==
    /\ contact = current_settings.contact
    /\ location = current_settings.location
    /\ services # None
    /\ services[1] = current_settings.services

\* sum(_SERVICE_TYPES[service] for service in services)
RECURSIVE services_vdata(_)
services_vdata(services) ==
    IF services = <<>> THEN 0
    ELSE ServiceValue(Head(services)) + services_vdata(Tail(services))

\* The reg.set_value calls of the three fields, in the order of the code.
agent_writes(contact, location, services, current_settings) ==
    (IF contact # PyNone /\ contact # current_settings.contact
     THEN <<set_value(AGENT_KEY, "sysContact", contact, "REG_SZ")>>
     ELSE <<>>)
    \o
    (IF location # PyNone /\ location # current_settings.location
     THEN <<set_value(AGENT_KEY, "sysLocation", location, "REG_SZ")>>
     ELSE <<>>)
    \o
    (IF services # None /\ Range(services[1]) # Range(current_settings.services)
     THEN <<set_value(AGENT_KEY, "sysServices",
                      PyInt(services_vdata(services[1])), "REG_DWORD")>>
     ELSE <<>>)

\* The requested fields that new_settings does not hold.
failed_settings(contact, location, services, new_settings) ==
    {f \in {"contact"} : contact # PyNone /\ contact # new_settings.contact}
    \cup
    {f \in {"location"} : location # PyNone /\ location # new_settings.location}
    \cup
    {f \in {"services"} : services # None /\ services[1] # new_settings.services}

set_agent_settings(contact, location, services_arg) ==
    LET services == IF services_arg # None
                    THEN Some(SortedNames(Range(services_arg[1])))
                    ELSE None
        this == [NoCall EXCEPT !.fn = "set_agent_settings",
                               !.contact = contact, !.location = location,
                               !.services = services_arg]
        current_settings == get_agent_settings(sysContact, sysLocation, sysServices)
    IN  IF services # None /\ ~services_valid(services[1])
        THEN /\ call' = this
             /\ outcome' = "SaltInvocationError"
             /\ writes' = <<>>
             /\ result' = NoResult
             /\ UNCHANGED <<agentStore, EnableAuthenticationTraps, commStore>>
        ELSE IF settings_equal(contact, location, services, current_settings)
        THEN /\ call' = this
             /\ outcome' = "True"
             /\ writes' = <<>>
             /\ result' = NoResult
             /\ UNCHANGED <<agentStore, EnableAuthenticationTraps, commStore>>
        ELSE LET issued == agent_writes(contact, location, services, current_settings)
             IN  \E dropped \in SUBSET (DOMAIN issued) :
                   LET newContact == StoredAfter(issued, dropped, "sysContact", sysContact)
                       newLocation == StoredAfter(issued, dropped, "sysLocation", sysLocation)
                       newServices == StoredAfter(issued, dropped, "sysServices", sysServices)
                       new_settings == get_agent_settings(newContact, newLocation, newServices)
                   IN  /\ sysContact' = newContact
                       /\ sysLocation' = newLocation
                       /\ sysServices' = newServices
                       /\ call' = [this EXCEPT !.dropped = dropped]
                       /\ writes' = issued
                       /\ outcome' =
                            IF failed_settings(contact, location, services, new_settings) # {}
                            THEN "False" ELSE "True"
                       /\ result' = NoResult
                       /\ UNCHANGED <<EnableAuthenticationTraps, commStore>>

\* A call of get_agent_settings by the dispatcher.
GetAgentSettings ==
    /\ result' = [NoResult EXCEPT
                      !.settings = get_agent_settings(sysContact, sysLocation, sysServices)]
    /\ call' = [NoCall EXCEPT !.fn = "get_agent_settings"]
    /\ outcome' = "returned"
    /\ writes' = <<>>
    /\ UNCHANGED <<agentStore, EnableAuthenticationTraps, commStore>>

----------------------------------------------------------------------------
\* get_auth_traps_enabled, set_auth_traps_enabled

\* The reader without the test for the "(value not set)" string, which is truthy.
get_auth_traps_enabled_no_sentinel(vdata) ==
    IF vdata = PyNone THEN FALSE
    ELSE IF vdata.kind = "str" THEN vdata.s # ""
    ELSE vdata.n # 0

get_auth_traps_enabled(vdata) ==
    IF vdata = PyStr("(value not set)") THEN FALSE
    ELSE IF vdata = PyNone THEN FALSE       \* bool(None or 0)
    ELSE vdata.n # 0                        \* bool(vdata)

\* int(status)
int(status) == IF status THEN 1 ELSE 0

traps_write(status) ==
    set_value(SNMP_KEY, "EnableAuthenticationTraps", PyInt(int(status)), "REG_DWORD")

set_auth_traps_enabled(status) ==
    LET this == [NoCall EXCEPT !.fn = "set_auth_traps_enabled", !.status = status]
        current_status == get_auth_traps_enabled(EnableAuthenticationTraps)
    IN  IF status = current_status
        THEN /\ call' = this
             /\ outcome' = "True"
             /\ writes' = <<>>
             /\ result' = NoResult
             /\ UNCHANGED <<agentStore, EnableAuthenticationTraps, commStore>>
        ELSE LET issued == <<traps_write(status)>>
             IN  \E dropped \in SUBSET (DOMAIN issued) :
                   LET newTraps == StoredAfter(issued, dropped,
                                               "EnableAuthenticationTraps",
                                               EnableAuthenticationTraps)
                       new_status == get_auth_traps_enabled(newTraps)
                   IN  /\ EnableAuthenticationTraps' = newTraps
                       /\ call' = [this EXCEPT !.dropped = dropped]
                       /\ writes' = issued
                       /\ outcome' = IF status = new_status THEN "True" ELSE "False"
                       /\ result' = NoResult
                       /\ UNCHANGED <<agentStore, commStore>>

\* A call of get_auth_traps_enabled by the dispatcher.
GetAuthTrapsEnabled ==
    /\ result' = [NoResult EXCEPT
                      !.enabled = get_auth_traps_enabled(EnableAuthenticationTraps)]
    /\ call' = [NoCall EXCEPT !.fn = "get_auth_traps_enabled"]
    /\ outcome' = "returned"
    /\ writes' = <<>>
    /\ UNCHANGED <<agentStore, EnableAuthenticationTraps, commStore>>

----------------------------------------------------------------------------
\* get_community_names

\* An item of reg.list_values: a dict of vname and vdata, or an error value
\* that is no dict.
Value(vname, vdata) == [wf |-> TRUE, vname |-> vname, vdata |-> vdata]
ErrorValue == [wf |-> FALSE, vname |-> "", vdata |-> PyNone]

\* __utils__["reg.list_values"](_HKEY, _COMMUNITIES_KEY)
list_values(values, error) ==
    LET vnames == SortedNames(DOMAIN values)
    IN  (IF error THEN <<ErrorValue>> ELSE <<>>)
        \o [i \in DOMAIN vnames |-> Value(vnames[i], values[vnames[i]])]

\* The loop over the Group Policy values.
RECURSIVE load_gpo(_, _)
load_gpo(current_values, ret) ==
    IF current_values = <<>> THEN ret
    ELSE LET current_value == Head(current_values)
         IN  load_gpo(Tail(current_values),
                      IF ~current_value.wf THEN ret
                      ELSE DictSet(ret, current_value.vdata.s, "Managed by GPO"))

\* The loop over _PERMISSION_TYPES, from its i-th key on.
RECURSIVE permission_of(_, _)
permission_of(i, vdata) ==
    IF i > Len(PERMISSION_TYPES) THEN ""
    ELSE IF vdata = PyInt(PERMISSION_TYPES[i].value) THEN PERMISSION_TYPES[i].name
    ELSE permission_of(i + 1, vdata)

\* The loop over the values of the SNMP settings.
RECURSIVE load_local(_, _)
load_local(current_values, ret) ==
    IF current_values = <<>> THEN ret
    ELSE LET current_value == Head(current_values)
         IN  load_local(Tail(current_values),
                        IF ~current_value.wf THEN ret
                        ELSE DictSet(ret, current_value.vname,
                                     permission_of(1, current_value.vdata)))

\* The reader that falls back to the SNMP settings only without a Group Policy key.
get_community_names_by_key(gpo_exists, gpo_values, local_values) ==
    IF gpo_exists THEN load_gpo(gpo_values, EmptyDict)
    ELSE load_local(local_values, EmptyDict)

get_community_names(gpo_exists, gpo_values, local_values) ==
    LET ret == IF gpo_exists THEN load_gpo(gpo_values, EmptyDict) ELSE EmptyDict
    IN  IF DOMAIN ret = {} THEN load_local(local_values, EmptyDict) ELSE ret

\* A call of get_community_names by the dispatcher.
GetCommunityNames ==
    /\ result' = [NoResult EXCEPT
                      !.communities =
                          get_community_names(gpoKeyExists, gpoValues,
                                              list_values(localValues, localError))]
    /\ call' = [NoCall EXCEPT !.fn = "get_community_names"]
    /\ outcome' = "returned"
    /\ writes' = <<>>
    /\ UNCHANGED <<agentStore, EnableAuthenticationTraps, commStore>>

----------------------------------------------------------------------------
\* set_community_names

\* if not communities[vname]: communities[vname] = "None"
normalized(communities) ==
    [vname \in DOMAIN communities |->
        IF communities[vname] = "" THEN "None" ELSE communities[vname]]

\* no communities[vname] raises KeyError in _PERMISSION_TYPES
permissions_valid(communities) ==
    \A vname \in DOMAIN communities :
        communities[vname] \in Range(get_permission_types)

\* values[vname] = _PERMISSION_TYPES[communities[vname]]
permission_values(communities) ==
    [vname \in DOMAIN communities |-> PermissionValue(communities[vname])]

\* current_communities[current_vname] != values[current_vname]: a permission
\* name against a permission integer
permission_differs(current_permission, value) ==
    PyStr(current_permission) # PyInt(value)

\* The loop over current_communities, on the vnames in their order.
RECURSIVE check_current(_, _, _)
check_current(vnames, current_communities, values) ==
    IF vnames = <<>> THEN <<>>
    ELSE LET current_vname == Head(vnames)
             rest == check_current(Tail(vnames), current_communities, values)
         IN  IF current_vname \in DOMAIN values
             THEN IF permission_differs(current_communities[current_vname],
                                        values[current_vname])
                  THEN <<set_value(COMMUNITIES_KEY, current_vname,
                                   PyInt(values[current_vname]), "REG_DWORD")>> \o rest
                  ELSE rest
             ELSE <<delete_value(COMMUNITIES_KEY, current_vname)>> \o rest

\* The loop over values that creates the new communities.
RECURSIVE create_new(_, _, _)
create_new(vnames, current_communities, values) ==
    IF vnames = <<>> THEN <<>>
    ELSE LET vname == Head(vnames)
             rest == create_new(Tail(vnames), current_communities, values)
         IN  IF vname \notin DOMAIN current_communities
             THEN <<set_value(COMMUNITIES_KEY, vname, PyInt(values[vname]),
                              "REG_DWORD")>> \o rest
             ELSE rest

community_writes(current_communities, values) ==
    check_current(SortedNames(DOMAIN current_communities), current_communities, values)
    \o create_new(SortedNames(DOMAIN values), current_communities, values)

\* The values under _COMMUNITIES_KEY after the issued calls from the i-th on,
\* of which those at the positions in dropped did not take effect.
RECURSIVE ValuesAfter(_, _, _, _)
ValuesAfter(issued, i, dropped, values) ==
    IF i > Len(issued) THEN values
    ELSE ValuesAfter(issued, i + 1, dropped,
            IF i \in dropped THEN values
            ELSE IF issued[i].fn = "set_value"
                 THEN DictSet(values, issued[i].vname, issued[i].vdata)
                 ELSE DictDel(values, issued[i].vname))

\* for vname in communities: communities[vname] != new_communities[vname]
\* raises KeyError for a vname that new_communities does not hold
verify_raises(communities, new_communities) ==
    \E vname \in DOMAIN communities : vname \notin DOMAIN new_communities

failed_communities(communities, new_communities) ==
    {new_vname \in DOMAIN new_communities : new_vname \notin DOMAIN communities}
    \cup
    {vname \in (DOMAIN communities) \cap (DOMAIN new_communities) :
        communities[vname] # new_communities[vname]}

\* The writer's test done as the reader does it: a Group Policy key with an entry.
managed_by_gpo_entries(gpo_exists, gpo_values) ==
    gpo_exists /\ DOMAIN load_gpo(gpo_values, EmptyDict) # {}

\* __utils__["reg.key_exists"](_HKEY, _COMMUNITIES_GPO_KEY), as the writer asks it
managed_by_gpo(gpo_exists, gpo_values) == gpo_exists

\* The comparison of the community names alone.
already_set_by_name(communities, current_communities) ==
    DOMAIN communities = DOMAIN current_communities

\* communities == current_communities, before the permissions are normalised
already_set(communities, current_communities) ==
    communities = current_communities

set_community_names(communities) ==
    LET this == [NoCall EXCEPT !.fn = "set_community_names",
                               !.communities = communities]
        current_communities ==
            get_community_names(gpoKeyExists, gpoValues,
                                list_values(localValues, localError))
    IN  IF managed_by_gpo(gpoKeyExists, gpoValues)
        THEN /\ call' = this
             /\ outcome' = "CommandExecutionError"
             /\ writes' = <<>>
             /\ result' = NoResult
             /\ UNCHANGED <<agentStore, EnableAuthenticationTraps, commStore>>
        ELSE IF already_set(communities, current_communities)
        THEN /\ call' = this
             /\ outcome' = "True"
             /\ writes' = <<>>
             /\ result' = NoResult
             /\ UNCHANGED <<agentStore, EnableAuthenticationTraps, commStore>>
        ELSE IF ~permissions_valid(normalized(communities))
        THEN /\ call' = this
             /\ outcome' = "SaltInvocationError"
             /\ writes' = <<>>
             /\ result' = NoResult
             /\ UNCHANGED <<agentStore, EnableAuthenticationTraps, commStore>>
        ELSE LET values == permission_values(normalized(communities))
                 issued == community_writes(current_communities, values)
             IN  \E dropped \in SUBSET (DOMAIN issued) :
                   LET newValues == ValuesAfter(issued, 1, dropped, localValues)
                       new_communities ==
                           get_community_names(gpoKeyExists, gpoValues,
                                               list_values(newValues, localError))
                   IN  /\ localValues' = newValues
                       /\ call' = [this EXCEPT !.dropped = dropped]
                       /\ writes' = issued
                       /\ outcome' =
                            IF verify_raises(normalized(communities), new_communities)
                            THEN "KeyError"
                            ELSE IF failed_communities(normalized(communities),
                                                       new_communities) # {}
                            THEN "False" ELSE "True"
                       /\ result' = NoResult
                       /\ UNCHANGED <<agentStore, EnableAuthenticationTraps,
                                      gpoKeyExists, gpoValues, localError>>

----------------------------------------------------------------------------
\* The arguments of the calls and the initial registry contents

\* The longest services list a call passes.
MaxServices == 2

ServiceArgNames == {"None", "Physical", "bogus"}
ServiceArgs ==
    {None} \cup
    {Some(list) : list \in UNION {[1..len -> ServiceArgNames] : len \in 0..MaxServices}}
ContactArgs == {PyNone, PyStr("alice")}
LocationArgs == {PyNone, PyStr("lab")}

CommunityNames == {"a", "b"}
PermissionArgs == {"", "None", "Read Only", "bogus"}
CommunityArgs ==
    UNION {[vnames -> PermissionArgs] : vnames \in SUBSET CommunityNames}

\* The sum of a set of integers.
RECURSIVE SetSum(_)
SetSum(ints) ==
    IF ints = {} THEN 0
    ELSE LET i == CHOOSE x \in ints : TRUE IN i + SetSum(ints \ {i})

ServiceNames == Range(get_agent_service_types)
\* The bitwise OR of the bit values of a set of services: their values are 0
\* and pairwise different powers of two, so that it is their sum.
Bitmask(services) == SetSum({ServiceValue(name) : name \in services})

SetAgentSettings ==
    \E contact \in ContactArgs, location \in LocationArgs, services \in ServiceArgs :
        set_agent_settings(contact, location, services)

SetAuthTrapsEnabled == \E status \in BOOLEAN : set_auth_traps_enabled(status)

SetCommunityNames == \E communities \in CommunityArgs : set_community_names(communities)

NoResults ==
    /\ call = NoCall
    /\ outcome = ""
    /\ writes = <<>>
    /\ result = NoResult

\* The registry of a fresh SNMP-Service installation.
DefaultAgent ==
    /\ sysContact = PyNone
    /\ sysLocation = PyNone
    /\ sysServices = PyInt(76)
DefaultTraps == EnableAuthenticationTraps = PyNone
DefaultCommunities ==
    /\ gpoKeyExists = FALSE
    /\ gpoValues = <<>>
    /\ localValues = EmptyDict
    /\ localError = FALSE

StoredBitmasks ==
    {PyNone, PyInt(16), PyInt(128)} \cup
    {PyInt(Bitmask(services)) : services \in SUBSET ServiceNames}

InitAgentRead ==
    /\ sysContact \in {PyNone, PyStr("alice")}
    /\ sysLocation \in {PyNone, PyStr("lab")}
    /\ sysServices \in StoredBitmasks
    /\ DefaultTraps /\ DefaultCommunities /\ NoResults

InitAgent ==
    /\ sysContact \in {PyNone, PyStr("bob")}
    /\ sysLocation \in {PyNone}
    /\ sysServices \in {PyNone, PyInt(0), PyInt(5)}
    /\ DefaultTraps /\ DefaultCommunities /\ NoResults

\* The largest integer the registry holds as EnableAuthenticationTraps.
MaxTrapValue == 24

StoredTraps ==
    {PyStr("(value not set)"), PyNone} \cup {PyInt(i) : i \in 0..MaxTrapValue}

InitTraps ==
    /\ EnableAuthenticationTraps \in StoredTraps
    /\ DefaultAgent /\ DefaultCommunities /\ NoResults

StoredGpoValues ==
    { <<>>, <<ErrorValue>>, <<Value("1", PyStr("a"))>>,
      <<ErrorValue, Value("1", PyStr("a")), Value("2", PyStr("b"))>> }
\* The largest integer the registry holds as the vdata of a community.
MaxStoredPermission == 4

StoredPermissions == {PyInt(i) : i \in 1..MaxStoredPermission}
StoredCommunities ==
    UNION {[vnames -> StoredPermissions] : vnames \in SUBSET CommunityNames}

InitCommunities ==
    /\ gpoKeyExists \in BOOLEAN
    /\ gpoValues \in (IF gpoKeyExists THEN StoredGpoValues ELSE {<<>>})
    /\ localValues \in StoredCommunities
    /\ localError \in BOOLEAN
    /\ DefaultAgent /\ DefaultTraps /\ NoResults

\* The three concerns read and write disjoint registry values, so that each
\* is explored from its own initial registry contents with the values of the
\* other two at their defaults; Spec below is the module as a whole.
SpecAgentRead == InitAgentRead /\ [][GetAgentSettings]_vars
SpecAgent == InitAgent /\ [][SetAgentSettings \/ GetAgentSettings]_vars
SpecTraps == InitTraps /\ [][SetAuthTrapsEnabled \/ GetAuthTrapsEnabled]_vars
SpecCommunities == InitCommunities /\ [][SetCommunityNames \/ GetCommunityNames]_vars

\* The calls that validation rejects: a service, or a non-empty permission,
\* that is no key of its enumeration.
InvalidServiceArgs ==
    {services \in ServiceArgs \ {None} : ~services_valid(services[1])}
InvalidCommunityArgs ==
    {communities \in CommunityArgs :
        \E vname \in DOMAIN communities :
            /\ communities[vname] # ""
            /\ communities[vname] \notin Range(get_permission_types)}

SetAgentSettingsInvalid ==
    \E contact \in ContactArgs, location \in LocationArgs,
       services \in InvalidServiceArgs :
        set_agent_settings(contact, location, services)

SetCommunityNamesInvalid ==
    \E communities \in InvalidCommunityArgs : set_community_names(communities)

InitValidation == InitAgent \/ InitCommunities
SpecValidation ==
    InitValidation /\ [][SetAgentSettingsInvalid \/ SetCommunityNamesInvalid]_vars

Init == InitAgent \/ InitTraps \/ InitCommunities
Next ==
    \/ SetAgentSettings
    \/ GetAgentSettings
    \/ SetAuthTrapsEnabled
    \/ GetAuthTrapsEnabled
    \/ SetCommunityNames
    \/ GetCommunityNames
Spec == Init /\ [][Next]_vars

----------------------------------------------------------------------------
\* The claims

\* seq lists exactly the names of the set, each once, in ascending order
IsSortedListOf(seq, names) ==
    /\ Range(seq) = names
    /\ Len(seq) = Cardinality(names)
    /\ \A i, j \in DOMAIN seq : i < j => StrLt(seq[i], seq[j])

NonZeroServiceNames == {name \in ServiceNames : ServiceValue(name) # 0}

\* C1 as stated: for every subset S of the six service names, with the OR of
\* the bit values of S stored as sysServices, get_agent_settings returns S
\* sorted by name, and ['None'] when the stored value is 0.
C1_AnySubsetRecovered ==
    \A S \in SUBSET ServiceNames :
        (call.fn = "get_agent_settings" /\ sysServices = PyInt(Bitmask(S)))
        => IF Bitmask(S) = 0
           THEN result.settings.services = <<"None">>
           ELSE IsSortedListOf(result.settings.services, S)

\* C1 amended: for every subset S of the five service names with a non-zero
\* bit value, with the OR of the bit values of S stored as sysServices,
\* get_agent_settings returns S sorted by name when S is not empty and
\* ['None'] when it is (the stored value is 0); 'None' is never returned
\* beside another service.
C1_NonZeroSubsetRecovered ==
    \A S \in SUBSET NonZeroServiceNames :
        (call.fn = "get_agent_settings" /\ sysServices = PyInt(Bitmask(S)))
        => IF S = {}
           THEN result.settings.services = <<"None">>
           ELSE IsSortedListOf(result.settings.services, S)

C1_Witness ==
    /\ call.fn = "get_agent_settings"
    /\ sysServices = PyInt(Bitmask({"Physical", "Internet", "Applications"}))
    /\ result.settings.services = <<"Applications", "Internet", "Physical">>

\* C2: set_agent_settings is idempotent: when a call with valid arguments, all
\* of whose writes took effect, is followed by a call with the same arguments,
\* the second call leaves the agent values as they are and issues no write.
C2_Idempotent ==
    [][(/\ call.fn = "set_agent_settings"
        /\ outcome # "SaltInvocationError"
        /\ call.dropped = {}
        /\ call'.fn = "set_agent_settings"
        /\ call'.contact = call.contact
        /\ call'.location = call.location
        /\ call'.services = call.services
        /\ call'.dropped = {})
       => (agentStore' = agentStore /\ writes' = <<>>)]_vars

HasInvalidService(services) ==
    services # None /\ \E i \in DOMAIN services[1] : services[1][i] \notin ServiceNames

HasInvalidPermission(communities) ==
    \E vname \in DOMAIN communities :
        /\ communities[vname] # ""
        /\ communities[vname] \notin {"None", "Notify", "Read Only", "Read Write",
                                      "Read Create"}

\* C3 as stated: a set_agent_settings call with a service outside the
\* enumeration, and a set_community_names call with a non-empty permission
\* outside the enumeration, raises SaltInvocationError whatever the registry
\* holds, and has issued no write or delete.
C3_InvalidAlwaysInvocationError ==
    /\ (call.fn = "set_agent_settings" /\ HasInvalidService(call.services))
       => (outcome = "SaltInvocationError" /\ writes = <<>>)
    /\ (call.fn = "set_community_names" /\ HasInvalidPermission(call.communities))
       => (outcome = "SaltInvocationError" /\ writes = <<>>)

\* C3 amended: a set_agent_settings call with a service outside the
\* enumeration raises SaltInvocationError whatever the registry holds; a
\* set_community_names call with a non-empty permission outside the
\* enumeration raises SaltInvocationError when no Group Policy community key
\* exists and CommandExecutionError when one exists; in every case the call
\* has issued no write or delete.
C3_InvalidRaisesBeforeWrites ==
    /\ (call.fn = "set_agent_settings" /\ HasInvalidService(call.services))
       => (outcome = "SaltInvocationError" /\ writes = <<>>)
    /\ (call.fn = "set_community_names" /\ HasInvalidPermission(call.communities))
       => /\ outcome = IF gpoKeyExists THEN "CommandExecutionError"
                       ELSE "SaltInvocationError"
          /\ writes = <<>>

C3_Witness ==
    /\ call.fn = "set_community_names"
    /\ "a" \in DOMAIN call.communities /\ call.communities["a"] = "Read Only"
    /\ "b" \in DOMAIN call.communities /\ call.communities["b"] = "bogus"
    /\ ~gpoKeyExists
    /\ DOMAIN localValues = {"a"}
    /\ outcome = "SaltInvocationError"

\* C4: with the Group Policy community key present, also when it holds no
\* value, every set_community_names call raises CommandExecutionError, issues
\* no write or delete and leaves the local community values as they are.
C4_GpoKeyBlocksWrites ==
    [][(call'.fn = "set_community_names" /\ gpoKeyExists)
       => /\ outcome' = "CommandExecutionError"
          /\ writes' = <<>>
          /\ localValues' = localValues]_vars

C4_Witness ==
    /\ call.fn = "set_community_names"
    /\ gpoKeyExists /\ gpoValues = <<>>
    /\ DOMAIN call.communities = {"a"} /\ call.communities["a"] = "Read Only"
    /\ DOMAIN localValues = {"b"}
    /\ outcome = "CommandExecutionError"

\* The communities of a call with each empty permission replaced by 'None'.
Requested(communities) ==
    [vname \in DOMAIN communities |->
        IF communities[vname] = "" THEN "None" ELSE communities[vname]]

\* get_community_names on the registry as it is now
CommunitiesNow ==
    get_community_names(gpoKeyExists, gpoValues, list_values(localValues, localError))

\* C5: without a Group Policy community key and with every write and delete
\* taking effect, set_community_names(C), for C of valid or empty
\* permissions, returns true, and get_community_names then returns C with
\* each empty permission replaced by 'None'.
C5_SetThenGet ==
    (/\ call.fn = "set_community_names"
     /\ ~gpoKeyExists
     /\ ~HasInvalidPermission(call.communities)
     /\ call.dropped = {})
    => (outcome = "True" /\ CommunitiesNow = Requested(call.communities))

\* sentinel, null and 0 read as disabled, any other integer as enabled
TrapsOn(vdata) == vdata.kind = "int" /\ vdata.n # 0

\* C6: set_auth_traps_enabled(status) issues no write and returns true when
\* the stored value already reads as status; otherwise it issues exactly one
\* write, of 1 for true and 0 for false, and when that write takes effect it
\* returns true and get_auth_traps_enabled then returns status.
C6_AuthTraps ==
    [][/\ call'.fn = "set_auth_traps_enabled"
          => IF TrapsOn(EnableAuthenticationTraps) = call'.status
             THEN /\ writes' = <<>>
                  /\ outcome' = "True"
                  /\ EnableAuthenticationTraps' = EnableAuthenticationTraps
             ELSE /\ Len(writes') = 1
                  /\ writes'[1].fn = "set_value"
                  /\ writes'[1].vname = "EnableAuthenticationTraps"
                  /\ writes'[1].vdata = PyInt(IF call'.status THEN 1 ELSE 0)
                  /\ call'.dropped = {}
                     => /\ outcome' = "True"
                        /\ TrapsOn(EnableAuthenticationTraps') = call'.status
       /\ call'.fn = "get_auth_traps_enabled"
          => result'.enabled = TrapsOn(EnableAuthenticationTraps)]_vars

C6_Witness ==
    /\ call.fn = "set_auth_traps_enabled"
    /\ call.status
    /\ call.dropped = {}
    /\ Len(writes) = 1
    /\ outcome = "True"
    /\ EnableAuthenticationTraps = PyInt(1)

\* C7: without a Group Policy community key and with valid input, a
\* set_community_names call of which some write or delete did not take
\* effect, so that the table read back differs from the requested one (a
\* requested community missing from it included), returns false; the
\* mismatch is never raised as an error.
C7_MismatchReturnsFalse ==
    (/\ call.fn = "set_community_names"
     /\ ~gpoKeyExists
     /\ ~HasInvalidPermission(call.communities)
     /\ call.dropped # {}
     /\ CommunitiesNow # Requested(call.communities))
    => outcome = "False"

\* The registry calls of a sequence that name the value vname.
CallsOn(issued, vname) == {issued[i] : i \in {j \in DOMAIN issued : issued[j].vname = vname}}

\* C8: a set_community_names call that reaches reconciliation writes only the
\* deltas: a community of the current and of the desired table is written
\* only if its permission differs, and then with the desired permission; a
\* community of the current table alone is deleted; a community of the
\* desired table alone is created; a community that already has the desired
\* permission receives no write.
C8_OnlyDeltas ==
    [][(/\ call'.fn = "set_community_names"
        /\ ~gpoKeyExists
        /\ ~HasInvalidPermission(call'.communities)
        /\ call'.communities # CommunitiesNow)
       => LET current == CommunitiesNow
              desired == Requested(call'.communities)
          IN  \A vname \in (DOMAIN current) \cup (DOMAIN desired) :
                CallsOn(writes', vname) =
                    IF vname \notin DOMAIN desired
                    THEN {delete_value(COMMUNITIES_KEY, vname)}
                    ELSE IF vname \in DOMAIN current /\ current[vname] = desired[vname]
                    THEN {}
                    ELSE {set_value(COMMUNITIES_KEY, vname,
                                    PyInt(PermissionValue(desired[vname])),
                                    "REG_DWORD")}]_vars

\* C9: without a Group Policy community key, a set_community_names call whose
\* input, with each empty permission replaced by 'None', equals the current
\* community table returns true and issues no write or delete.
C9_NoWriteWhenEqual ==
    [][(/\ call'.fn = "set_community_names"
        /\ ~gpoKeyExists
        /\ Requested(call'.communities) = CommunitiesNow)
       => (outcome' = "True" /\ writes' = <<>>)]_vars

\* The data of the well-formed Group Policy entries.
GpoNames == {gpoValues[i].vdata.s : i \in {j \in DOMAIN gpoValues : gpoValues[j].wf}}

\* The first permission name, in declared order, of a stored integer.
FirstPermission(vdata) ==
    LET matches == {i \in DOMAIN PERMISSION_TYPES : PyInt(PERMISSION_TYPES[i].value) = vdata}
    IN  IF matches = {} THEN ""
        ELSE PERMISSION_TYPES[CHOOSE i \in matches : \A j \in matches : i <= j].name

\* C10: get_community_names returns, when the Group Policy key exists and
\* holds a well-formed entry, exactly the data of each such entry mapped to
\* 'Managed by GPO' and nothing of the local table; otherwise, for each local
\* entry, its name mapped to the first permission name whose integer is the
\* stored one, or to the empty string; an error value adds nothing.
C10_CommunityNames ==
    call.fn = "get_community_names"
    => result.communities =
         IF gpoKeyExists /\ GpoNames # {}
         THEN [vname \in GpoNames |-> "Managed by GPO"]
         ELSE [vname \in DOMAIN localValues |-> FirstPermission(localValues[vname])]

C10_Witness ==
    /\ call.fn = "get_community_names"
    /\ gpoKeyExists /\ gpoValues = <<ErrorValue>>
    /\ localError
    /\ DOMAIN localValues = {"a", "b"}
    /\ result.communities = [vname \in {"a", "b"} |->
                                IF vname = "a" THEN "" ELSE "Read Only"]

====
